---- MODULE Spec2Model ----
(***************************************************************************)
(* The x axis of the vislib charts, src/kibana/components/vislib/lib/      *)
(* x_axis.js: scale selection, one render pass over the sibling             *)
(* .x-axis-div panels, the rotate/truncate pass of nominal axes, the        *)
(* collision filter of ordered axes, and truncateLabel as a pure function.  *)
(*                                                                          *)
(* Pixel quantities are exact rationals.  A panel width is the pair         *)
(* [n, d] = parentWidth / n-of-panels; a scale position is a numerator      *)
(* over ScaleDen(scale); the collision sweep works in integer units of      *)
(* 1 / (20 * ScaleDen) px so that the factor 1.1 / 2 = 11 / 20 is exact.    *)
(* Text is a sequence of one-character strings; a rendered text measures    *)
(* Len(text) * charPx pixels (a fixed-pitch font of charPx px per glyph).   *)
(***************************************************************************)
EXTENDS Integers, Sequences, FiniteSets, TLC

\* ---------------------------------------------------------------- bounds
MaxPanels == 2
MaxRenders == 2
MaxT == 3
MaxValues == 2
MaxStrLen == 4
MaxBudget == 8

\* ------------------------------------------------------ program constants
maxRotatedLength == 180
xAxisPadding == 15
ellipsesPad == 4
rangeBandTenths == 1

\* ------------------------------------------------------- JavaScript values
Num(n) == [k |-> "num", v |-> n]
NaN == [k |-> "nan", v |-> 0]
Undefined == [k |-> "undefined", v |-> 0]
NegInfinity == [k |-> "-inf", v |-> 0]
IsNum(b) == b.k = "num"

Rat(n, d) == [n |-> n, d |-> d]
RatLT(a, b) == a.n * b.d < b.n * a.d

Max(a, b) == IF a >= b THEN a ELSE b

\* ------------------------------------------------------------------ texts
TxtA == <<"a">>
TxtAbc == <<"a", "b", "c">>
TxtDots == <<".", ".", ".">>
TxtSix == <<"a", "a", "a", "a", "a", "a">>
TxtLong == <<"a", "-", " ", "a", "a", "a", "a">>
TxtLead == <<" ", "-", "a", "a", "a", "a", "a">>

FormatterTables ==
  { <<TxtLong, TxtA, TxtAbc>>,
    <<TxtDots, TxtA, TxtSix>>,
    <<TxtLead, TxtAbc, TxtA>> }

CharPxChoices == {30, 70}
ParentWidths == {0, 420}
PanelHeights == {0, 20}
Alphabet == {"a", " ", "-", ",", "."}

VARIABLES
  ordered,        \* this.ordered: [present, date, min, max]
  xValues,        \* this.xValues
  formatter,      \* this.xAxisFormatter, as a table indexed by value + 1
  tickStep,       \* step of the ticks scale.ticks(10) emits on a time scale
  charPx,         \* px per glyph of the tick label font
  parentWidth,    \* measured width of .x-axis-div-wrapper
  axisDivWidth,   \* measured width of the first .x-axis-div, 0 for none
  panels,         \* the .x-axis-div elements: [height, svgs]
  xScale,         \* this.xScale
  xAxis,          \* this.xAxis: [built, scale]
  attr,           \* this._attr: [isRotated, xAxisLabelHt]
  layout,         \* spacer block and titles of the .vis-wrapper
  passes,         \* per panel of the last filterOrRotate: the closure variables
  lastError,      \* what the last render() threw, "none" when it returned
  renders,        \* number of render() calls so far
  tText, tSize, tCharPx, tResult   \* one truncateLabel(text, size) call

vars == <<ordered, xValues, formatter, tickStep, charPx, parentWidth,
          axisDivWidth, panels, xScale, xAxis, attr, layout, passes,
          lastError, renders, tText, tSize, tCharPx, tResult>>

config == <<ordered, xValues, formatter, tickStep, charPx>>
truncVars == <<tText, tSize, tCharPx, tResult>>

\* ---------------------------------------------------------- measurement
\* node.getBBox().width of a rendered text
TextWidth(str, px) == Len(str) * px

\* this.xAxisFormatter(d)
xAxisFormatter(d) ==
  IF d + 1 <= Len(formatter) THEN formatter[d + 1] ELSE formatter[Len(formatter)]

\* --------------------------------------------------------------- scales
NoScale == [kind |-> "undefined", range |-> "none", domain |-> <<>>,
            tmin |-> Undefined, tmax |-> Undefined, w |-> Rat(0, 1)]

IsTime(o) == o.present /\ o.date

\* d3.scale.ordinal().domain(values): duplicates collapse, first one wins
RECURSIVE Unique(_)
Unique(s) ==
  IF s = <<>> THEN <<>>
  ELSE LET init == Unique(SubSeq(s, 1, Len(s) - 1))
           last == s[Len(s)]
       IN IF \E i \in 1..Len(init) : init[i] = last THEN init
          ELSE Append(init, last)

getScale(o) ==
  IF IsTime(o) THEN [NoScale EXCEPT !.kind = "time"]
  ELSE [NoScale EXCEPT !.kind = "ordinal"]

getTimeDomain(scale, o) == [scale EXCEPT !.tmin = o.min, !.tmax = o.max]

getOrdinalDomain(scale, values) == [scale EXCEPT !.domain = Unique(values)]

getDomain(scale, o) ==
  IF IsTime(o) THEN getTimeDomain(scale, o)
  ELSE getOrdinalDomain(scale, xValues)

getRange(scale, o, width) ==
  IF IsTime(o) THEN [scale EXCEPT !.range = "linear", !.w = width]
  ELSE [scale EXCEPT !.range = "bands", !.w = width]

getXScale(o, width) == getRange(getDomain(getScale(o), o), o, width)

\* Whether the scale maps its domain to numbers; otherwise scale(d) is NaN.
ScaleIsNumber(scale) ==
  CASE scale.kind = "time" -> IsNum(scale.tmin) /\ IsNum(scale.tmax)
    [] scale.kind = "ordinal" -> TRUE
    [] OTHER -> FALSE

\* scale(d) = ScaleNum(scale, d) / ScaleDen(scale) pixels
ScaleDen(scale) ==
  IF scale.kind = "time"
  THEN (scale.tmax.v - scale.tmin.v) * scale.w.d
  ELSE (10 * Len(scale.domain) + rangeBandTenths) * scale.w.d

IndexOf(s, d) == CHOOSE i \in 1..Len(s) : s[i] = d

ScaleNum(scale, d) ==
  IF scale.kind = "time"
  THEN (d - scale.tmin.v) * scale.w.n
  ELSE (rangeBandTenths + 10 * (IndexOf(scale.domain, d) - 1)) * scale.w.n

\* scale.rangeBand() of rangeBands([0, width], 0.1), as a rational
rangeBand(scale) ==
  Rat((10 - rangeBandTenths) * scale.w.n,
      (10 * Len(scale.domain) + rangeBandTenths) * scale.w.d)

\* the tick values d3.svg.axis draws for the scale
RECURSIVE StepTicks(_, _, _)
StepTicks(from, to, step) ==
  IF from > to THEN <<>> ELSE <<from>> \o StepTicks(from + step, to, step)

AxisTicks(scale) ==
  CASE scale.kind = "ordinal" -> scale.domain
    [] scale.kind = "time" /\ ScaleIsNumber(scale) ->
         StepTicks(scale.tmin.v, scale.tmax.v, tickStep)
    [] OTHER -> <<>>

\* ------------------------------------------------------------ truncateLabel
\* the while loop of truncateLabel: step back over ' ', '-' and ','
RECURSIVE TrimEnd(_, _)
TrimEnd(str, endChar) ==
  IF endChar >= 1 /\ endChar <= Len(str) /\ str[endChar] \in {" ", "-", ","}
  THEN TrimEnd(str, endChar - 1)
  ELSE endChar

\* str.substr(0, n)
Substr0(str, n) ==
  IF n <= 0 THEN <<>>
  ELSE IF n >= Len(str) THEN str ELSE SubSeq(str, 1, n)

\* EndChar without the reserve for the ellipsis
EndCharNoPad(size, width, chars) == (size * chars) \div width

\* Math.floor((size / pxPerChar) - ellipsesPad), pxPerChar = width / chars
EndChar(size, width, chars) == ((size * chars) \div width) - ellipsesPad

truncateLabel(str, size, px) ==
  LET width == TextWidth(str, px)
      chars == Len(str)
  IN IF width > size
     THEN Substr0(str, TrimEnd(str, EndChar(size, width, chars))) \o <<".", ".", ".">>
     ELSE str

\* ------------------------------------------------------- the DOM of a panel
Tick(d) == [d |-> d, text |-> xAxisFormatter(d), rotated |-> FALSE]

RECURSIVE FlatTicks(_)
FlatTicks(svgs) ==
  IF svgs = <<>> THEN <<>> ELSE Head(svgs).ticks \o FlatTicks(Tail(svgs))

RECURSIVE SeqMax(_)
SeqMax(s) == IF Len(s) = 1 THEN s[1] ELSE Max(s[1], SeqMax(Tail(s)))

NoPass == [kind |-> "none", lengths |-> <<>>, length |-> Undefined,
           bar |-> Rat(0, 1), isRotated |-> FALSE, labelHt |-> Undefined,
           before |-> <<>>, after |-> <<>>, visits |-> <<>>, den |-> 1, maxW |-> 0]

\* ------------------------------------------------------ rotateAxisLabels
\* the rotation test with >= in place of >
LongerOrEqualBar(length, barWidth) == ~RatLT(Rat(length, 1), barWidth)

\* length > barWidth
LongerThanBar(length, barWidth) == RatLT(barWidth, Rat(length, 1))

\* xAxisLabelHt with the cap overwritten by the padded length
LabelHtUncapped(length) == length + xAxisPadding

\* xAxisLabelHt: length + xAxisPadding, capped at maxRotatedLength
LabelHt(length) ==
  IF length > maxRotatedLength THEN maxRotatedLength ELSE length + xAxisPadding

\* the text(...) / attr('transform', ...) chain applied to one tick label
RotateTick(t, size) ==
  [t EXCEPT !.text = truncateLabel(t.text, size, charPx), !.rotated = TRUE]

\* selection.select('svg').attr('height', ...): the first svg of the panel
SetFirstHeight(svgs, h) ==
  IF svgs = <<>> THEN svgs ELSE [svgs EXCEPT ![1].height = h]

\* one panel of the rotate pass: [svgs, isRotated, labelHt, pass]
rotateAxisLabels(svgs, scale) ==
  LET text == FlatTicks(svgs)
      lengths == [i \in 1..Len(text) |-> TextWidth(text[i].text, charPx)]
      barWidth == rangeBand(scale)
      empty == lengths = <<>>
      length == IF empty THEN 0 ELSE SeqMax(lengths)
      isRotated == ~empty /\ LongerThanBar(length, barWidth)
      labelHt == IF empty THEN NegInfinity ELSE Num(LabelHt(length))
      newSvgs ==
        IF isRotated
        THEN SetFirstHeight(
               [k \in 1..Len(svgs) |->
                  [svgs[k] EXCEPT !.ticks =
                     [i \in 1..Len(svgs[k].ticks) |->
                        RotateTick(svgs[k].ticks[i], labelHt.v)]]],
               labelHt.v)
        ELSE svgs
      after == FlatTicks(newSvgs)
  IN [svgs |-> newSvgs, isRotated |-> isRotated, labelHt |-> labelHt,
      pass |-> [NoPass EXCEPT !.kind = "rotate", !.lengths = lengths,
                 !.length = IF empty THEN NegInfinity ELSE Num(length),
                 !.bar = barWidth, !.isRotated = isRotated, !.labelHt = labelHt,
                 !.before = [i \in 1..Len(text) |-> text[i].text],
                 !.after = [i \in 1..Len(after) |-> after[i].text]]]

\* ------------------------------------------------------ filterAxisLabels
\* the keep test without the comparison against the last kept label
KeepTickIgnoreOverlap(startX, halfWidth, myX, maxW) == maxW > myX + halfWidth

\* the keep test without the comparison against the axis width
KeepTickIgnoreRightEdge(startX, halfWidth, myX, maxW) == startX + halfWidth < myX

\* (startX + halfWidth) < myX && maxW > (myX + halfWidth)
KeepTick(startX, halfWidth, myX, maxW) ==
  startX + halfWidth < myX /\ maxW > myX + halfWidth

\* startX after a kept tick
NextStartX(myX, halfWidth) == myX + halfWidth

\* par.getBBox().width * padding / 2, in units of 1 / (20 * den) px
HalfWidth(t, den) == 11 * TextWidth(t.text, charPx) * den

\* the sweep over the panel's tick labels, in document order; units as above
RECURSIVE Sweep(_, _, _, _)
Sweep(ticks, scale, startX, maxW) ==
  IF ticks = <<>> THEN <<>>
  ELSE LET t == Head(ticks)
           valid == ScaleIsNumber(scale)
           den == IF valid THEN ScaleDen(scale) ELSE 1
           myX == IF valid THEN 20 * ScaleNum(scale, t.d) ELSE 0
           hw == HalfWidth(t, den)
           keep == valid /\ KeepTick(startX, hw, myX, maxW)
       IN <<[d |-> t.d, startX |-> startX, x |-> myX, hw |-> hw, kept |-> keep]>>
          \o Sweep(Tail(ticks), scale, IF keep THEN NextStartX(myX, hw) ELSE startX, maxW)

\* d3.select(this.parentNode).remove() for the ticks the sweep rejected
RECURSIVE RemoveDropped(_, _, _)
RemoveDropped(svgs, visits, offset) ==
  IF svgs = <<>> THEN <<>>
  ELSE LET s == Head(svgs)
           idx == {i \in 1..Len(s.ticks) : visits[offset + i].kept}
           keptTicks == SelectSeq([i \in 1..Len(s.ticks) |->
                                     [t |-> s.ticks[i], keep |-> i \in idx]],
                                  LAMBDA r : r.keep)
       IN <<[s EXCEPT !.ticks = [i \in 1..Len(keptTicks) |->
                                   [keptTicks[i].t EXCEPT
                                      !.text = xAxisFormatter(keptTicks[i].t.d)]]]>>
          \o RemoveDropped(Tail(svgs), visits, offset + Len(s.ticks))

\* one panel of the filter pass: [svgs, pass]
filterAxisLabels(svgs, scale) ==
  LET valid == ScaleIsNumber(scale)
      den == IF valid THEN ScaleDen(scale) ELSE 1
      maxW == 20 * den * axisDivWidth
      visits == Sweep(FlatTicks(svgs), scale, 0, maxW)
  IN [svgs |-> RemoveDropped(svgs, visits, 0),
      pass |-> [NoPass EXCEPT !.kind = "filter", !.visits = visits,
                 !.den = den, !.maxW = maxW]]

\* ------------------------------------------------------------------ draw
\* ErrorHandler.prototype.validateWidthandHeight: both must be positive
validateWidthandHeight(width, height) == width.n > 0 /\ height > 0

\* !this.xScale || _.isNaN(this.xScale): xScale is the scale function object
XScaleRejected(scale) == scale.kind = "undefined"

NoAxis == [built |-> FALSE, scale |-> NoScale]

\* d3.svg.axis().scale(this.xScale).ticks(10).tickFormat(...).orient('bottom')
BuildAxis(scale) == [built |-> TRUE, scale |-> scale]

\* div.append('svg') ... svg.append('g').call(self.xAxis)
AppendSvg(panel, width, height, axis) ==
  LET tv == AxisTicks(axis.scale)
  IN [panel EXCEPT !.svgs = Append(@, [width |-> width, height |-> height,
                                        ticks |-> [i \in 1..Len(tv) |-> Tick(tv[i])]])]

\* the body of selection.each with the svg appended before the validation
DrawPanelAppendFirst(st, i) ==
  LET n == Len(st.panels)
      width == Rat(parentWidth, n)
      height == st.panels[i].height
      scale == getXScale(ordered, width)
      axis == BuildAxis(scale)
      appended == [st EXCEPT !.xScale = scale, !.xAxis = axis,
                             !.panels[i] = AppendSvg(@, width, height, axis)]
  IN IF ~validateWidthandHeight(width, height)
     THEN [appended EXCEPT !.err = "ContainerTooSmall"]
     ELSE appended

\* the body of selection.each in draw, for panel i of st.panels;
\* st = [panels, xScale, xAxis, err]
DrawPanel(st, i) ==
  LET n == Len(st.panels)
      width == Rat(parentWidth, n)
      height == st.panels[i].height
      scale == getXScale(ordered, width)
      axis == BuildAxis(scale)
  IN IF ~validateWidthandHeight(width, height)
     THEN [st EXCEPT !.err = "ContainerTooSmall"]
     ELSE IF XScaleRejected(scale)
     THEN [st EXCEPT !.xScale = scale, !.err = "xScale"]
     ELSE [st EXCEPT !.xScale = scale, !.xAxis = axis,
                     !.panels[i] = AppendSvg(@, width, height, axis)]

\* selection.each of draw: the panels in document order, up to the first throw
RECURSIVE DrawEach(_, _)
DrawEach(st, i) ==
  IF i > Len(st.panels) \/ st.err # "none" THEN st
  ELSE DrawEach(DrawPanel(st, i), i + 1)

\* --------------------------------------------------------- filterOrRotate
\* !ordered || ordered === undefined
UseRotate(o) == ~o.present

\* selection.each of filterOrRotate; st = [panels, attr, passes]
RECURSIVE FilterOrRotateEach(_, _, _)
FilterOrRotateEach(st, scale, i) ==
  IF i > Len(st.panels) THEN st
  ELSE IF UseRotate(ordered)
  THEN LET r == rotateAxisLabels(st.panels[i].svgs, scale)
       IN FilterOrRotateEach(
            [panels |-> [st.panels EXCEPT ![i].svgs = r.svgs],
             attr |-> [isRotated |-> r.isRotated, xAxisLabelHt |-> r.labelHt],
             passes |-> Append(st.passes, r.pass)],
            scale, i + 1)
  ELSE LET f == filterAxisLabels(st.panels[i].svgs, scale)
       IN FilterOrRotateEach(
            [panels |-> [st.panels EXCEPT ![i].svgs = f.svgs],
             attr |-> st.attr,
             passes |-> Append(st.passes, f.pass)],
            scale, i + 1)

\* updateXaxisHeight and fitTitles
SyncLayout == [innerSpacerBlock |-> TRUE, heightSynced |-> TRUE, titlesFitted |-> TRUE]

\* ------------------------------------------------------------------ render
Render ==
  /\ renders < MaxRenders
  /\ LET drawn == DrawEach([panels |-> panels, xScale |-> xScale,
                            xAxis |-> xAxis, err |-> "none"], 1)
         attr0 == [attr EXCEPT !.isRotated = FALSE]
     IN /\ xScale' = drawn.xScale
        /\ xAxis' = drawn.xAxis
        /\ lastError' = drawn.err
        /\ IF drawn.err # "none"
           THEN /\ panels' = drawn.panels
                /\ attr' = attr0
                /\ passes' = <<>>
                /\ UNCHANGED layout
           ELSE LET fr == FilterOrRotateEach(
                            [panels |-> drawn.panels, attr |-> attr0, passes |-> <<>>],
                            drawn.xScale, 1)
                IN /\ panels' = fr.panels
                   /\ attr' = fr.attr
                   /\ passes' = fr.passes
                   /\ layout' = SyncLayout
  /\ renders' = renders + 1
  /\ UNCHANGED <<config, parentWidth, axisDivWidth, truncVars>>

\* $(...).find('.x-axis-div').width(): the sibling panels share the wrapper
\* equally, the division draw itself relies on; null without a panel
DivWidth(pw, n) == IF n = 0 THEN 0 ELSE pw \div n

\* the window is resized: the container measurements change
Resize ==
  /\ renders < MaxRenders
  /\ \E pw \in ParentWidths, hs \in [1..Len(panels) -> PanelHeights] :
       /\ <<pw, hs>> # <<parentWidth, [i \in 1..Len(panels) |-> panels[i].height]>>
       /\ parentWidth' = pw
       /\ axisDivWidth' = DivWidth(pw, Len(panels))
       /\ panels' = [i \in 1..Len(panels) |-> [panels[i] EXCEPT !.height = hs[i]]]
  /\ layout' = [layout EXCEPT !.heightSynced = FALSE, !.titlesFitted = FALSE]
  /\ UNCHANGED <<config, xScale, xAxis, attr, passes, lastError, renders, truncVars>>

\* ------------------------------------------------------------------- Init
Keys == {0, 1}

ValueSeqs == UNION {[1..n -> Keys] : n \in 0..MaxValues}

Absent == [present |-> FALSE, date |-> FALSE, min |-> Undefined, max |-> Undefined]

NotDate == [present |-> TRUE, date |-> FALSE, min |-> Undefined, max |-> Undefined]

TimeOrdered == [present |-> TRUE, date |-> TRUE, min |-> Num(0), max |-> Num(MaxT)]

Malformed == [present |-> TRUE, date |-> TRUE, min |-> NaN, max |-> NaN]

InitConfig ==
  /\ formatter \in FormatterTables
  /\ charPx \in CharPxChoices
  /\ \/ ordered \in {Absent, NotDate} /\ xValues \in ValueSeqs /\ tickStep = 1
     \/ ordered = TimeOrdered /\ xValues = <<>> /\ tickStep \in 1..MaxT
     \/ ordered = Malformed /\ xValues = <<>> /\ tickStep = 1

InitTrunc ==
  /\ tText = <<>>
  /\ tSize = 0
  /\ tCharPx = 1
  /\ tResult = [called |-> FALSE, str |-> <<>>]

Init ==
  /\ InitConfig
  /\ parentWidth \in ParentWidths
  /\ \E n \in 0..MaxPanels : \E hs \in [1..n -> PanelHeights] :
       panels = [i \in 1..n |-> [height |-> hs[i], svgs |-> <<>>]]
  /\ axisDivWidth = DivWidth(parentWidth, Len(panels))
  /\ xScale = NoScale
  /\ xAxis = NoAxis
  /\ attr \in {[isRotated |-> b, xAxisLabelHt |-> Undefined] : b \in BOOLEAN}
  /\ layout = [innerSpacerBlock |-> FALSE, heightSynced |-> FALSE, titlesFitted |-> FALSE]
  /\ passes = <<>>
  /\ lastError = "none"
  /\ renders = 0
  /\ InitTrunc

Next == Render \/ Resize

Spec == Init /\ [][Next]_vars

\* ------------------------------------------- truncateLabel on its own
RECURSIVE Pad(_)
Pad(n) == IF n = 0 THEN <<>> ELSE <<"a">> \o Pad(n - 1)

\* texts: any prefix over the alphabet followed by a run of 'a'
TruncTexts ==
  { p \o Pad(k) : p \in UNION {[1..n -> Alphabet] : n \in 0..(MaxStrLen - 1)},
                  k \in 0..MaxStrLen } \ {<<>>}

TruncCharPx == {1, 3}

NotCalled == [called |-> FALSE, str |-> <<>>]

InitTruncate ==
  /\ ordered = Absent /\ xValues = <<>> /\ tickStep = 1 /\ charPx = 30
  /\ formatter = <<TxtLong, TxtA, TxtAbc>>
  /\ parentWidth = 0 /\ axisDivWidth = 0 /\ panels = <<>>
  /\ xScale = NoScale /\ xAxis = NoAxis
  /\ attr = [isRotated |-> FALSE, xAxisLabelHt |-> Undefined]
  /\ layout = [innerSpacerBlock |-> FALSE, heightSynced |-> FALSE, titlesFitted |-> FALSE]
  /\ passes = <<>> /\ lastError = "none" /\ renders = 0
  /\ tText \in TruncTexts
  /\ tCharPx \in TruncCharPx
  /\ tSize \in 0..MaxBudget
  /\ tResult = NotCalled

\* one call truncateLabel(text, size)
Truncate ==
  /\ ~tResult.called
  /\ tResult' = [called |-> TRUE, str |-> truncateLabel(tText, tSize, tCharPx)]
  /\ UNCHANGED <<config, parentWidth, axisDivWidth, panels, xScale, xAxis, attr,
                 layout, passes, lastError, renders, tText, tSize, tCharPx>>

NextTruncate == Truncate

TruncSpec == InitTruncate /\ [][NextTruncate]_vars

\* ================================================================ claims
RenderStep == renders' = renders + 1

Dots == <<".", ".", ".">>

KeptVisits(p) == SelectSeq(p.visits, LAMBDA v : v.kept)

\* C1: a render() that follows a completed render() with the same inputs (no
\* resize in between) leaves every panel with the surfaces and geometry it had.
C1_RenderIdempotent ==
  [][(RenderStep /\ layout.titlesFitted /\ lastError = "none" /\ lastError' = "none")
       => panels' = panels]_vars

\* C2: a render pass that throws on a panel's width or height leaves no panel
\* with a surface appended by that pass.
C2_NoPartialAxisOnFailure ==
  [][(RenderStep /\ lastError' = "ContainerTooSmall")
       => \A i \in 1..Len(panels) : Len(panels'[i].svgs) = Len(panels[i].svgs)]_vars

\* C3: in every panel pass of a render the scale kind, the range kind and the
\* label strategy agree with the ordering descriptor: date true gives time scale,
\* linear range and the collision filter; date false or ordering absent gives
\* ordinal scale, banded range and rotation.
C3_OneAxisKind ==
  \A i \in 1..Len(passes) :
    IF ordered.present /\ ordered.date
    THEN xScale.kind = "time" /\ xScale.range = "linear" /\ passes[i].kind = "filter"
    ELSE xScale.kind = "ordinal" /\ xScale.range = "bands" /\ passes[i].kind = "rotate"

\* C4: a scale that evaluates to NaN on its domain is fatal: no tick axis
\* generator is bound to it and the render that built it ended in the xScale error.
C4_InvalidScaleIsFatal ==
  /\ xAxis.built => ScaleIsNumber(xAxis.scale)
  /\ (xScale.kind # "undefined" /\ ~ScaleIsNumber(xScale)) => lastError # "none"

\* C5: after the collision sweep of a panel, any two kept labels i before j
\* satisfy x_i + halfWidth_i < x_j - halfWidth_j, and kept positions increase.
C5_KeptLabelsDisjoint ==
  \A n \in 1..Len(passes) :
    passes[n].kind = "filter" =>
      LET k == KeptVisits(passes[n])
      IN \A i, j \in 1..Len(k) :
           i < j => /\ k[i].x + k[i].hw < k[j].x - k[j].hw
                    /\ k[i].x < k[j].x

\* two labels kept and, after a kept one, a label dropped for overlapping it
C5_Witness ==
  \E n \in 1..Len(passes) :
    /\ passes[n].kind = "filter"
    /\ Len(KeptVisits(passes[n])) >= 2
    /\ \E i \in 1..Len(passes[n].visits) :
         LET v == passes[n].visits[i]
         IN ~v.kept /\ v.startX > 0 /\ v.startX + v.hw >= v.x /\ v.x + v.hw < passes[n].maxW

\* C6: after the collision sweep of a panel the ticks left in the panel are
\* exactly the kept ones, and each has x + halfWidth < the axis width.
C6_KeptWithinAxisWidth ==
  \A n \in 1..Len(passes) :
    passes[n].kind = "filter" =>
      LET k == KeptVisits(passes[n])
          left == FlatTicks(panels[n].svgs)
      IN /\ Len(left) = Len(k)
         /\ \A i \in 1..Len(k) :
              /\ left[i].d = k[i].d
              /\ k[i].hw = 11 * Len(left[i].text) * charPx * passes[n].den
              /\ k[i].x + k[i].hw < passes[n].maxW
         /\ layout.titlesFitted => passes[n].maxW = 20 * passes[n].den * axisDivWidth

\* a label kept and a label dropped only for reaching past the axis width
C6_Witness ==
  \E n \in 1..Len(passes) :
    /\ passes[n].kind = "filter"
    /\ Len(KeptVisits(passes[n])) >= 1
    /\ \E i \in 1..Len(passes[n].visits) :
         LET v == passes[n].visits[i]
         IN ~v.kept /\ v.startX + v.hw < v.x /\ v.x + v.hw >= passes[n].maxW

\* the pixel width of the widest of the texts, 0 when there is none
RECURSIVE Widest(_)
Widest(texts) ==
  IF texts = <<>> THEN 0 ELSE Max(Len(Head(texts)) * charPx, Widest(Tail(texts)))

\* number of bands of the ordinal scale
Bands == Cardinality({xValues[i] : i \in 1..Len(xValues)})

\* the width attribute of the svg the last render appended to panel n
PanelWidth(n) == panels[n].svgs[Len(panels[n].svgs)].width

\* widest label > band width = 0.9 * width / (bands + 0.1)
WiderThanBand(n) ==
  Widest(passes[n].before) * (10 * Bands + 1) * PanelWidth(n).d > 9 * PanelWidth(n).n

\* C7: after the rotation pass of a panel isRotated is true iff the widest label
\* the panel rendered is strictly wider than the band width of the scale; the
\* value left in the attributes is that of the last panel.
C7_RotatedIffWiderThanBand ==
  /\ \A n \in 1..Len(passes) :
       passes[n].kind = "rotate" =>
         /\ passes[n].isRotated <=> (passes[n].before # <<>> /\ WiderThanBand(n))
         /\ \A i \in 1..Len(panels[n].svgs[Len(panels[n].svgs)].ticks) :
              panels[n].svgs[Len(panels[n].svgs)].ticks[i].rotated = passes[n].isRotated
  /\ (passes # <<>> /\ passes[Len(passes)].kind = "rotate")
       => attr.isRotated = passes[Len(passes)].isRotated

\* the widest label is exactly as wide as the band, and isRotated, true before
\* the first render or after the previous one, is false
C7_Witness ==
  /\ passes # <<>>
  /\ passes[1].kind = "rotate"
  /\ passes[1].before # <<>>
  /\ Widest(passes[1].before) * (10 * Bands + 1) * PanelWidth(1).d = 9 * PanelWidth(1).n
  /\ ~attr.isRotated

\* C8 as stated: for a budget of at least one character's estimated width the
\* result's estimated width exceeds the budget by at most one character's width.
C8_WithinOneChar ==
  (tResult.called /\ tSize * Len(tText) >= TextWidth(tText, tCharPx))
    => Len(tResult.str) * TextWidth(tText, tCharPx)
         <= tSize * Len(tText) + TextWidth(tText, tCharPx)

\* C8 amended: for a budget of at least two characters' estimated width the
\* result's estimated width exceeds the budget by at most one character's width.
C8_WithinOneCharFromTwo ==
  (tResult.called /\ tSize * Len(tText) >= 2 * TextWidth(tText, tCharPx))
    => Len(tResult.str) * TextWidth(tText, tCharPx)
         <= tSize * Len(tText) + TextWidth(tText, tCharPx)

\* a text cut to a non-empty prefix and the ellipsis, after trimming
C8_Witness ==
  /\ tResult.called
  /\ tSize * Len(tText) >= 2 * TextWidth(tText, tCharPx)
  /\ TextWidth(tText, tCharPx) > tSize
  /\ Len(tResult.str) > 3
  /\ Len(tResult.str) < EndChar(tSize, TextWidth(tText, tCharPx), Len(tText)) + 3

\* C9 as stated: a render with parent width 0 or with no panel throws the
\* configuration error and creates no surface.
C9_ZeroWidthFails ==
  [][(RenderStep /\ (parentWidth = 0 \/ Len(panels) = 0))
       => (lastError' = "ContainerTooSmall" /\ panels' = panels)]_vars

\* C9 amended: a render over at least one panel with parent width 0 throws the
\* configuration error and creates no surface; a render over no panel returns
\* without an error, and creates no surface either.
C9_ZeroWidthFailsWithPanels ==
  [][RenderStep =>
       /\ (parentWidth = 0 /\ Len(panels) >= 1)
            => (lastError' = "ContainerTooSmall" /\ panels' = panels)
       /\ Len(panels) = 0 => (lastError' = "none" /\ panels' = panels)]_vars

\* a render over two panels of positive height under a parent of width 0 threw
C9_Witness ==
  /\ renders >= 1
  /\ parentWidth = 0
  /\ Len(panels) = 2
  /\ \A i \in 1..2 : panels[i].height > 0 /\ panels[i].svgs = <<>>
  /\ lastError = "ContainerTooSmall"
  /\ ~layout.innerSpacerBlock

\* C10 as stated: the rotation pass changes a label's text iff the panel is
\* rotated and the label's own width exceeds maxRotatedLength.
C10_ChangedIffRotatedAndLong ==
  \A n \in 1..Len(passes) :
    passes[n].kind = "rotate" =>
      \A i \in 1..Len(passes[n].before) :
        (passes[n].after[i] # passes[n].before[i])
          <=> (passes[n].isRotated /\ passes[n].lengths[i] > maxRotatedLength)

\* C10 amended: the rotation pass changes a label's text iff the panel is
\* rotated, the label's own width exceeds maxRotatedLength and its text is not
\* already the bare ellipsis "..."; when the widest label is at most
\* maxRotatedLength wide no text is changed.
C10_ChangedIffRotatedLongNotDots ==
  \A n \in 1..Len(passes) :
    passes[n].kind = "rotate" =>
      /\ \A i \in 1..Len(passes[n].before) :
           /\ passes[n].lengths[i] = Len(passes[n].before[i]) * charPx
           /\ (passes[n].after[i] # passes[n].before[i])
                <=> /\ passes[n].isRotated
                    /\ passes[n].lengths[i] > maxRotatedLength
                    /\ passes[n].before[i] # Dots
      /\ Widest(passes[n].before) <= maxRotatedLength
           => passes[n].after = passes[n].before

\* a rotated panel with one label cut and one label left as it was
C10_Witness ==
  \E n \in 1..Len(passes) :
    /\ passes[n].kind = "rotate"
    /\ passes[n].isRotated
    /\ \E i, j \in 1..Len(passes[n].before) :
         /\ passes[n].after[i] # passes[n].before[i]
         /\ passes[n].lengths[j] <= maxRotatedLength
         /\ passes[n].after[j] = passes[n].before[j]

====
